---- MODULE Spec2Model ----
(***************************************************************************)
(* Model of the cyclomatic-complexity analyzer in src/src/main.rs:         *)
(*   calculate_complexity  - per-function decision-point counting over a   *)
(*                           syntax tree,                                  *)
(*   analyze_directory     - the walk over the file tree with the running  *)
(*                           total / max and the final Summary,            *)
(*   print_table / main    - report rendering and error propagation.       *)
(*                                                                         *)
(* Strings that the code inspects character by character (paths, file      *)
(* names) are sequences of one-character strings.  An Option<T> is a       *)
(* sequence of length 0 (None) or 1 (Some).                                *)
(***************************************************************************)
EXTENDS Integers, Sequences, FiniteSets, TLC

VARIABLES
    source,            \* calculate_complexity: the syntax tree of `source`
    results,           \* calculate_complexity: Option of the returned Vec
    args,              \* main: the parsed Args
    walk,              \* analyze_directory: the items WalkDir will yield
    pos,               \* analyze_directory: number of items consumed
    functions,         \* analyze_directory: `functions` of the last iteration
    all_functions,     \* analyze_directory: all_functions
    total_complexity,  \* analyze_directory: total_complexity (u64)
    max_complexity,    \* analyze_directory: max_complexity (u32)
    readFiles,         \* paths handed to std::fs::read_to_string
    parsedFiles,       \* paths whose text was handed to calculate_complexity
    result,            \* Option of the AnalysisResult returned
    pc,                \* control position of main / analyze_directory
    stdout             \* blocks printed to standard output, in order

vars == <<source, results, args, walk, pos, functions, all_functions,
          total_complexity, max_complexity, readFiles, parsedFiles, result,
          pc, stdout>>

(***************************************************************************)
(* Bounds of the model.                                                    *)
(***************************************************************************)
MaxNodes == 3
MaxEntries == 3

(***************************************************************************)
(* Syntax trees.  A tree is a sequence of nodes in source (pre-)order;     *)
(* node 0 is the module.  tree-sitter's function_definition has the fields *)
(* name, parameters and body: the name is kept as an attribute, and the    *)
(* `parameters` and `body` (block) children are represented by the field   *)
(* tag of the nodes below them.                                            *)
(***************************************************************************)
Node(kind, parent, field, row) ==
    [kind |-> kind, parent |-> parent, field |-> field, row |-> row, name |-> ""]

FnNode(name, parent, field, row) ==
    [kind |-> "function_definition", parent |-> parent, field |-> field,
     row |-> row, name |-> name]

\* The kinds named by the control-flow query.
control_flow_query_no_elif ==
    {"if_statement", "for_statement", "while_statement", "try_statement",
     "except_clause", "with_statement", "boolean_operator"}

control_flow_query ==
    {"if_statement", "elif_clause", "for_statement", "while_statement",
     "try_statement", "except_clause", "with_statement", "boolean_operator"}

function_query == {"function_definition"}

\* Base complexity.
base_complexity_zero == 1 - 1

base_complexity == 1

ChildSeq(t, n) ==
    SelectSeq([i \in 1..Len(t) |-> i], LAMBDA i : t[i].parent = n)

\* The children of the block that is the `body` field of function f.
BodyChildSeq(t, f) ==
    SelectSeq([i \in 1..Len(t) |-> i],
              LAMBDA i : t[i].parent = f /\ t[i].field = "body")

\* QueryCursor::matches: the nodes of the given kinds met by a pre-order walk
\* that starts with the nodes of `stack` and never leaves their subtrees.
RECURSIVE cursor_matches(_, _, _)
cursor_matches(t, stack, kinds) ==
    IF stack = <<>> THEN <<>>
    ELSE LET n == Head(stack)
             hit == IF t[n].kind \in kinds THEN <<n>> ELSE <<>>
         IN hit \o cursor_matches(t, ChildSeq(t, n) \o Tail(stack), kinds)

\* A stricter scope: the walk does not enter nested function definitions.
RECURSIVE cursor_matches_own_body(_, _, _)
cursor_matches_own_body(t, stack, kinds) ==
    IF stack = <<>> THEN <<>>
    ELSE LET n == Head(stack)
             hit == IF t[n].kind \in kinds THEN <<n>> ELSE <<>>
             down == IF t[n].kind = "function_definition" THEN <<>>
                     ELSE ChildSeq(t, n)
         IN hit \o cursor_matches_own_body(t, down \o Tail(stack), kinds)

control_matches_strict(t, f) ==
    cursor_matches_own_body(t, BodyChildSeq(t, f), control_flow_query)

\* control_cursor.matches(&control_flow_query, body_node, ..)
control_matches(t, f) ==
    cursor_matches(t, BodyChildSeq(t, f), control_flow_query)

\* for _ in control_matches { complexity += 1; }
RECURSIVE count_loop(_, _)
count_loop(matches, complexity) ==
    IF matches = <<>> THEN complexity
    ELSE count_loop(Tail(matches), complexity + 1)

FunctionComplexity(t, f) ==
    [name       |-> t[f].name,
     file       |-> <<>>,
     line       |-> t[f].row + 1,
     complexity |-> count_loop(control_matches(t, f), base_complexity)]

RECURSIVE push_all(_, _)
push_all(t, matches) ==
    IF matches = <<>> THEN <<>>
    ELSE <<FunctionComplexity(t, Head(matches))>> \o push_all(t, Tail(matches))

calculate_complexity(t) ==
    push_all(t, cursor_matches(t, ChildSeq(t, 0), function_query))

(***************************************************************************)
(* The syntax trees calculate_complexity is run on: every well-formed tree *)
(* of at most MaxNodes nodes, and the sources of the repository's tests.   *)
(***************************************************************************)
Statements ==
    {"function_definition", "if_statement", "for_statement", "while_statement",
     "try_statement", "with_statement", "pass_statement"}

Compound ==
    {"module", "function_definition", "if_statement", "elif_clause",
     "for_statement", "while_statement", "try_statement", "except_clause",
     "with_statement"}

KindOf(t, n) == IF n = 0 THEN "module" ELSE t[n].kind

\* Which node kinds the grammar allows below which.
ValidChild(pk, field, k) ==
    \/ k \in Statements /\ pk \in Compound /\ field # "parameters"
    \/ k = "elif_clause" /\ pk = "if_statement"
    \/ k = "except_clause" /\ pk = "try_statement"
    \/ k = "boolean_operator"
         /\ pk \in (Compound \cup {"boolean_operator"}) \ {"module", "try_statement"}

RECURSIVE AncestorsOrSelf(_, _)
AncestorsOrSelf(t, n) ==
    IF n = 0 THEN {0} ELSE {n} \cup AncestorsOrSelf(t, t[n].parent)

FieldsBelow(t, p) ==
    IF KindOf(t, p) # "function_definition" THEN {"child"}
    ELSE IF BodyChildSeq(t, p) = <<>> THEN {"parameters", "body"}
    ELSE {"body"}

GeneratedKinds ==
    Statements \cup {"elif_clause", "except_clause", "boolean_operator"}

\* The trees that extend t by one node, appended in source order.
Grow(t) ==
    LET last == Len(t)
        row == last + 1
    IN { Append(t, IF k = "function_definition"
                   THEN FnNode("f", p, fl, row)
                   ELSE Node(k, p, fl, row)) :
           <<k, p, fl>> \in
             { x \in GeneratedKinds \X AncestorsOrSelf(t, last)
                                     \X {"child", "parameters", "body"} :
                 /\ x[3] \in FieldsBelow(t, x[2])
                 /\ ValidChild(KindOf(t, x[2]), x[3], x[1]) } }

RECURSIVE Trees(_)
Trees(n) ==
    IF n = 0 THEN {<<>>}
    ELSE LET smaller == Trees(n - 1)
         IN smaller \cup UNION { Grow(t) : t \in { s \in smaller : Len(s) = n - 1 } }

\* test_calculate_complexity_simple
Source_test ==
    << FnNode("simple_function", 0, "child", 1),
       Node("return_statement", 1, "body", 2),
       FnNode("complex_function", 0, "child", 4),
       Node("if_statement", 3, "body", 5),
       Node("for_statement", 4, "child", 6),
       Node("while_statement", 5, "child", 7),
       Node("try_statement", 6, "child", 8),
       Node("with_statement", 7, "child", 9),
       Node("if_statement", 8, "child", 10),
       Node("boolean_operator", 9, "child", 10),
       Node("pass_statement", 9, "child", 11),
       Node("except_clause", 7, "child", 12),
       Node("pass_statement", 12, "child", 13) >>

\* test_analyze_directory: simple.py
Source_simple ==
    << FnNode("simple", 0, "child", 1),
       Node("return_statement", 1, "body", 2) >>

\* test_analyze_directory: complex.py
Source_complex ==
    << FnNode("complex", 0, "child", 1),
       Node("if_statement", 1, "body", 2),
       Node("for_statement", 2, "child", 3),
       Node("while_statement", 3, "child", 4),
       Node("try_statement", 4, "child", 5),
       Node("pass_statement", 5, "child", 6),
       Node("except_clause", 5, "child", 7),
       Node("pass_statement", 7, "child", 8) >>

\* test_analyze_directory: subdir/nested.py
Source_nested ==
    << FnNode("nested", 0, "child", 1),
       Node("if_statement", 1, "body", 2),
       Node("boolean_operator", 2, "child", 2),
       Node("pass_statement", 2, "child", 3) >>

\* test_analyze_directory: venv/ignored.py
Source_ignored ==
    << FnNode("ignored", 0, "child", 1),
       Node("pass_statement", 1, "body", 2) >>

\* A file without any function definition.
Source_empty ==
    << Node("pass_statement", 0, "child", 0) >>

TestSources ==
    {Source_test, Source_simple, Source_complex, Source_nested, Source_ignored}

(***************************************************************************)
(* Paths.  A path is a sequence of components, a component a sequence of   *)
(* characters; to_string_lossy joins the components with "/".              *)
(***************************************************************************)
N_proj == <<"p", "r", "o", "j">>
N_venvs == <<"v", "e", "n", "v", "s">>
N_venv == <<"v", "e", "n", "v">>
N_pycache == <<"_", "_", "p", "y", "c", "a", "c", "h", "e", "_", "_">>
N_myvenv2 == <<"m", "y", "v", "e", "n", "v", "2">>
N_subdir == <<"s", "u", "b", "d", "i", "r">>
N_private == <<"p", "r", "i", "v", "a", "t", "e">>
N_simple_py == <<"s", "i", "m", "p", "l", "e", ".", "p", "y">>
N_complex_py == <<"c", "o", "m", "p", "l", "e", "x", ".", "p", "y">>
N_nested_py == <<"n", "e", "s", "t", "e", "d", ".", "p", "y">>
N_ignored_py == <<"i", "g", "n", "o", "r", "e", "d", ".", "p", "y">>
N_cached_py == <<"c", "a", "c", "h", "e", "d", ".", "p", "y">>
N_tool_py == <<"t", "o", "o", "l", ".", "p", "y">>
N_empty_py == <<"e", "m", "p", "t", "y", ".", "p", "y">>
N_locked_py == <<"l", "o", "c", "k", "e", "d", ".", "p", "y">>
N_broken_py == <<"b", "r", "o", "k", "e", "n", ".", "p", "y">>
N_notes_txt == <<"n", "o", "t", "e", "s", ".", "t", "x", "t">>

RECURSIVE to_string_lossy(_)
to_string_lossy(path) ==
    IF path = <<>> THEN <<>>
    ELSE IF Len(path) = 1 THEN path[1]
    ELSE path[1] \o <<"/">> \o to_string_lossy(Tail(path))

\* str::contains
contains(s, pat) ==
    \E i \in 1..(Len(s) - Len(pat) + 1) : SubSeq(s, i, i + Len(pat) - 1) = pat

\* Path::extension, as an Option: the part of the file name after its last
\* ".", None when there is no "." or only a leading one.
extension(path) ==
    LET file_name == path[Len(path)]
        dots == { i \in 1..Len(file_name) : file_name[i] = "." }
        last == CHOOSE i \in dots : \A j \in dots : j <= i
    IN IF dots = {} THEN <<>>
       ELSE IF last = 1 THEN <<>>
       ELSE << SubSeq(file_name, last + 1, Len(file_name)) >>

\* .filter(|e| e.path().extension().map_or(false, |ext| ext == "py"))
is_py(path) ==
    LET ext == extension(path)
    IN IF ext = <<>> THEN FALSE ELSE ext[1] = <<"p", "y">>

\* The test of the `continue` in the loop body.
is_skipped_pycache_only(path) ==
    contains(to_string_lossy(path), N_pycache)

is_skipped_never(path) == FALSE

is_skipped(path) ==
    \/ contains(to_string_lossy(path), N_pycache)
    \/ contains(to_string_lossy(path), N_venv)

(***************************************************************************)
(* The file tree.  WalkDir yields, per entry, either the entry or an error *)
(* (an unreadable directory, a vanished entry).  An item of the catalog is *)
(* one thing the walk can yield, with what reading and parsing it gives.   *)
(***************************************************************************)
Item(kind, rel, read_ok, parse_ok, tree) ==
    [kind |-> kind, rel |-> rel, read_ok |-> read_ok, parse_ok |-> parse_ok,
     tree |-> tree]

Catalog ==
    << Item("file", <<N_simple_py>>, TRUE, TRUE, Source_simple),
       Item("file", <<N_complex_py>>, TRUE, TRUE, Source_complex),
       Item("file", <<N_subdir, N_nested_py>>, TRUE, TRUE, Source_nested),
       Item("file", <<N_venv, N_ignored_py>>, TRUE, TRUE, Source_ignored),
       Item("file", <<N_pycache, N_cached_py>>, TRUE, TRUE, Source_test),
       Item("file", <<N_myvenv2, N_tool_py>>, TRUE, TRUE, Source_nested),
       Item("file", <<N_notes_txt>>, TRUE, TRUE, Source_empty),
       Item("file", <<N_empty_py>>, TRUE, TRUE, Source_empty),
       Item("file", <<N_locked_py>>, FALSE, TRUE, Source_empty),
       Item("file", <<N_broken_py>>, TRUE, FALSE, Source_empty),
       Item("walk_error", <<N_private>>, FALSE, TRUE, Source_empty) >>

Roots == { <<N_proj>>, <<N_venvs, N_proj>> }
Thresholds == {1, 5}
Outputs == {"table", "json", "xml"}

\* The sequences of at most n distinct catalog items.
RECURSIVE Walks(_)
Walks(n) ==
    IF n = 0 THEN {<<>>}
    ELSE LET shorter == Walks(n - 1)
         IN shorter \cup
            { Append(w, c) : <<w, c>> \in
                { x \in shorter \X (1..Len(Catalog)) :
                    /\ Len(x[1]) = n - 1
                    /\ \A k \in 1..Len(x[1]) : x[1][k] # x[2] } }

item_at(k) == Catalog[walk[k]]
entry_path(k) == args.path \o item_at(k).rel

(***************************************************************************)
(* analyze_directory                                                        *)
(***************************************************************************)
\* func.file = file_path.to_string_lossy().to_string()
RECURSIVE stamp(_, _)
stamp(fs, file) ==
    IF fs = <<>> THEN <<>>
    ELSE <<[Head(fs) EXCEPT !.file = file]>> \o stamp(Tail(fs), file)

\* total_complexity += func.complexity as u64
RECURSIVE fold_total(_, _)
fold_total(total, fs) ==
    IF fs = <<>> THEN total
    ELSE fold_total(total + Head(fs).complexity, Tail(fs))

\* max_complexity = max_complexity.max(func.complexity)
fold_max_last(max, fs) ==
    IF fs = <<>> THEN max ELSE fs[Len(fs)].complexity

RECURSIVE fold_max(_, _)
fold_max(max, fs) ==
    IF fs = <<>> THEN max
    ELSE fold_max(IF Head(fs).complexity > max THEN Head(fs).complexity ELSE max,
                  Tail(fs))

\* .filter(|f| f.complexity > threshold)
above_threshold_inclusive(complexity, threshold) == complexity >= threshold

above_threshold(complexity, threshold) == complexity > threshold

\* .iter().filter(..).count()
RECURSIVE count_above(_, _)
count_above(fs, threshold) ==
    IF fs = <<>> THEN 0
    ELSE (IF above_threshold(Head(fs).complexity, threshold) THEN 1 ELSE 0)
         + count_above(Tail(fs), threshold)

Summary(fs, total, max, threshold) ==
    [mean_complexity           |-> [num |-> total, den |-> Len(fs)],
     max_complexity            |-> max,
     total_functions           |-> Len(fs),
     functions_above_threshold |-> count_above(fs, threshold)]

\* let summary = if !all_functions.is_empty() { Some(..) } else { None }
make_summary_always(fs, total, max, threshold) ==
    << Summary(fs, total, max, threshold) >>

make_summary(fs, total, max, threshold) ==
    IF fs # <<>> THEN << Summary(fs, total, max, threshold) >> ELSE <<>>

Walking == pc = "walking" /\ pos < Len(walk)

\* .filter_map(|e| e.ok()) drops an error of the traversal.
SkipWalkError ==
    /\ Walking
    /\ item_at(pos + 1).kind = "walk_error"
    /\ pos' = pos + 1
    /\ UNCHANGED <<source, results, args, walk, functions, all_functions,
                   total_complexity, max_complexity, readFiles, parsedFiles,
                   result, pc, stdout>>

\* .filter(..extension.. == "py") drops every other entry.
FilterExtension ==
    /\ Walking
    /\ item_at(pos + 1).kind # "walk_error"
    /\ ~is_py(entry_path(pos + 1))
    /\ pos' = pos + 1
    /\ UNCHANGED <<source, results, args, walk, functions, all_functions,
                   total_complexity, max_complexity, readFiles, parsedFiles,
                   result, pc, stdout>>

Yielded ==
    /\ Walking
    /\ item_at(pos + 1).kind # "walk_error"
    /\ is_py(entry_path(pos + 1))

\* if .. contains("__pycache__") || .. contains("venv") { continue; }
SkipExcluded ==
    /\ Yielded
    /\ is_skipped(entry_path(pos + 1))
    /\ pos' = pos + 1
    /\ UNCHANGED <<source, results, args, walk, functions, all_functions,
                   total_complexity, max_complexity, readFiles, parsedFiles,
                   result, pc, stdout>>

\* A walk that skips the unreadable file and goes on.
ReadFailsSkipped ==
    /\ Yielded
    /\ ~is_skipped(entry_path(pos + 1))
    /\ ~item_at(pos + 1).read_ok
    /\ pos' = pos + 1
    /\ readFiles' = readFiles \cup {entry_path(pos + 1)}
    /\ UNCHANGED <<source, results, args, walk, functions, all_functions,
                   total_complexity, max_complexity, parsedFiles, result, pc,
                   stdout>>

\* std::fs::read_to_string(file_path)? returns the error.
ReadFails ==
    /\ Yielded
    /\ ~is_skipped(entry_path(pos + 1))
    /\ ~item_at(pos + 1).read_ok
    /\ pos' = pos + 1
    /\ readFiles' = readFiles \cup {entry_path(pos + 1)}
    /\ pc' = "failed"
    /\ UNCHANGED <<source, results, args, walk, functions, all_functions,
                   total_complexity, max_complexity, parsedFiles, result, stdout>>

\* calculate_complexity(&source)? returns the error of parser.parse(..).context(..)?
ParseFails ==
    /\ Yielded
    /\ ~is_skipped(entry_path(pos + 1))
    /\ item_at(pos + 1).read_ok
    /\ ~item_at(pos + 1).parse_ok
    /\ pos' = pos + 1
    /\ readFiles' = readFiles \cup {entry_path(pos + 1)}
    /\ parsedFiles' = parsedFiles \cup {entry_path(pos + 1)}
    /\ pc' = "failed"
    /\ UNCHANGED <<source, results, args, walk, functions, all_functions,
                   total_complexity, max_complexity, result, stdout>>

\* One iteration of the loop on a file that is read and parsed.
AnalyzeFile ==
    /\ Yielded
    /\ ~is_skipped(entry_path(pos + 1))
    /\ item_at(pos + 1).read_ok
    /\ item_at(pos + 1).parse_ok
    /\ LET file_path == entry_path(pos + 1)
           stamped == stamp(calculate_complexity(item_at(pos + 1).tree),
                            to_string_lossy(file_path))
       IN /\ functions' = stamped
          /\ total_complexity' = fold_total(total_complexity, stamped)
          /\ max_complexity' = fold_max(max_complexity, stamped)
          /\ all_functions' = all_functions \o stamped
          /\ readFiles' = readFiles \cup {file_path}
          /\ parsedFiles' = parsedFiles \cup {file_path}
    /\ pos' = pos + 1
    /\ UNCHANGED <<source, results, args, walk, result, pc, stdout>>

\* The end of the walk: the summary and Ok(AnalysisResult { .. }).
Finish ==
    /\ pc = "walking"
    /\ pos = Len(walk)
    /\ result' = << [functions |-> all_functions,
                     summary   |-> make_summary(all_functions, total_complexity,
                                                max_complexity, args.threshold)] >>
    /\ pc' = "returned"
    /\ UNCHANGED <<source, results, args, walk, pos, functions, all_functions,
                   total_complexity, max_complexity, readFiles, parsedFiles,
                   stdout>>

(***************************************************************************)
(* print_table and main                                                    *)
(***************************************************************************)
\* The table, then the summary block if let Some(summary) = &result.summary.
print_table(res, threshold) ==
    << "table" >> \o (IF res.summary # <<>> THEN << "summary" >> ELSE <<>>)

\* let result = analyze_directory(..)?  with an Err
PropagateError ==
    /\ pc = "failed"
    /\ pc' = "exit_err"
    /\ UNCHANGED <<source, results, args, walk, pos, functions, all_functions,
                   total_complexity, max_complexity, readFiles, parsedFiles,
                   result, stdout>>

\* "table" => print_table(&result, args.threshold)
PrintTable ==
    /\ pc = "returned"
    /\ args.output = "table"
    /\ stdout' = stdout \o print_table(result[1], args.threshold)
    /\ pc' = "exit_ok"
    /\ UNCHANGED <<source, results, args, walk, pos, functions, all_functions,
                   total_complexity, max_complexity, readFiles, parsedFiles,
                   result>>

\* "json" => println!("{}", serde_json::to_string_pretty(&result)?)
PrintJson ==
    /\ pc = "returned"
    /\ args.output = "json"
    /\ stdout' = stdout \o << "json" >>
    /\ pc' = "exit_ok"
    /\ UNCHANGED <<source, results, args, walk, pos, functions, all_functions,
                   total_complexity, max_complexity, readFiles, parsedFiles,
                   result>>

\* _ => anyhow::bail!("Invalid output format")
InvalidFormat ==
    /\ pc = "returned"
    /\ args.output \notin {"table", "json"}
    /\ pc' = "exit_err"
    /\ UNCHANGED <<source, results, args, walk, pos, functions, all_functions,
                   total_complexity, max_complexity, readFiles, parsedFiles,
                   result, stdout>>

Init ==
    /\ source = <<>>
    /\ results = <<>>
    /\ args \in [path : Roots, threshold : Thresholds, output : Outputs,
                 summary : BOOLEAN]
    /\ walk \in Walks(MaxEntries)
    /\ pos = 0
    /\ functions = <<>>
    /\ all_functions = <<>>
    /\ total_complexity = 0
    /\ max_complexity = 0
    /\ readFiles = {}
    /\ parsedFiles = {}
    /\ result = <<>>
    /\ pc = "walking"
    /\ stdout = <<>>

Next ==
    \/ SkipWalkError
    \/ FilterExtension
    \/ SkipExcluded
    \/ ReadFails
    \/ ParseFails
    \/ AnalyzeFile
    \/ Finish
    \/ PropagateError
    \/ PrintTable
    \/ PrintJson
    \/ InvalidFormat

Spec == Init /\ [][Next]_vars

(***************************************************************************)
(* calculate_complexity on its own, over the syntax trees above.           *)
(***************************************************************************)
InitAnalyzer ==
    /\ source \in Trees(MaxNodes) \cup TestSources
    /\ results = <<>>
    /\ args = [path |-> <<N_proj>>, threshold |-> 10, output |-> "table",
               summary |-> FALSE]
    /\ walk = <<>>
    /\ pos = 0
    /\ functions = <<>>
    /\ all_functions = <<>>
    /\ total_complexity = 0
    /\ max_complexity = 0
    /\ readFiles = {}
    /\ parsedFiles = {}
    /\ result = <<>>
    /\ pc = "calculate"
    /\ stdout = <<>>

\* Ok(results)
Calculate ==
    /\ pc = "calculate"
    /\ results' = << calculate_complexity(source) >>
    /\ pc' = "calculated"
    /\ UNCHANGED <<source, args, walk, pos, functions, all_functions,
                   total_complexity, max_complexity, readFiles, parsedFiles,
                   result, stdout>>

NextAnalyzer == Calculate

SpecAnalyzer == InitAnalyzer /\ [][NextAnalyzer]_vars

(***************************************************************************)
(* Vocabulary of the properties, stated on the tree and on the file tree   *)
(* rather than on the walk the code performs.                              *)
(***************************************************************************)
DecisionPointKinds ==
    {"if_statement", "elif_clause", "for_statement", "while_statement",
     "try_statement", "except_clause", "with_statement", "boolean_operator"}

FunctionDefs(t) == { f \in 1..Len(t) : t[f].kind = "function_definition" }

\* Node i lies in the body of function f.
InBodyOf(t, i, f) ==
    \E c \in AncestorsOrSelf(t, i) :
        c # 0 /\ t[c].parent = f /\ t[c].field = "body"

DecisionPoints(t, f) ==
    { i \in 1..Len(t) : t[i].kind \in DecisionPointKinds /\ InBodyOf(t, i, f) }

Records(fs) == { fs[k] : k \in 1..Len(fs) }

RecordOf(t, fs, f) == { r \in Records(fs) : r.line = t[f].row + 1 }

SumOf(fs) ==
    LET partial[k \in 0..Len(fs)] ==
            IF k = 0 THEN 0 ELSE partial[k - 1] + fs[k].complexity
    IN partial[Len(fs)]

MaxOf(fs) ==
    IF fs = <<>> THEN 0
    ELSE LET cs == { fs[k].complexity : k \in 1..Len(fs) }
         IN CHOOSE m \in cs : \A c \in cs : c <= m

HasSubstring(s, pat) ==
    \E i \in 0..Len(s) :
        /\ i + Len(pat) <= Len(s)
        /\ \A j \in 1..Len(pat) : s[i + j] = pat[j]

ExcludedSegments == {N_pycache, N_venv}

\* The path has a directory component named __pycache__ or venv.
UnderExcludedSegment(path) ==
    \E i \in 1..(Len(path) - 1) : path[i] \in ExcludedSegments

\* The file name is <stem>.py with a non-empty stem.
HasPyExtension(path) ==
    LET name == path[Len(path)]
        n == Len(name)
    IN n > 3 /\ name[n - 2] = "." /\ name[n - 1] = "p" /\ name[n] = "y"

IsFileEntry(k) == item_at(k).kind = "file"

\* The functions of the k-th walk item all have a record in fs, stamped with
\* the item's path.
AllFunctionsIn(k, fs) ==
    LET t == item_at(k).tree
    IN \A f \in FunctionDefs(t) :
         \E r \in Records(fs) :
            /\ r.name = t[f].name
            /\ r.line = t[f].row + 1
            /\ r.file = to_string_lossy(entry_path(k))
            /\ r.complexity = 1 + Cardinality(DecisionPoints(t, f))

NoRecordOf(k, fs) ==
    \A r \in Records(fs) : r.file # to_string_lossy(entry_path(k))

Returned == result # <<>>
Aborted == pc = "failed" \/ (pc = "exit_err" /\ result = <<>>)

\* The k-th walk item is a file the loop reads and analyzes.
Eligible(k) ==
    /\ IsFileEntry(k)
    /\ HasPyExtension(entry_path(k))
    /\ ~HasSubstring(to_string_lossy(entry_path(k)), N_pycache)
    /\ ~HasSubstring(to_string_lossy(entry_path(k)), N_venv)

(***************************************************************************)
(* Properties                                                              *)
(***************************************************************************)

\* C1: every function definition of the source gets one record, and the
\* record's complexity is exactly 1 plus the number of decision-point nodes
\* (if, elif, for, while, try, except, with, boolean and/or) in the function's
\* body subtree, whatever their depth or order; the test's complex_function
\* has complexity 9.
C1_ComplexityIsOnePlusDecisionPoints ==
    results # <<>> =>
        /\ Len(results[1]) = Cardinality(FunctionDefs(source))
        /\ \A f \in FunctionDefs(source) :
             /\ Cardinality(RecordOf(source, results[1], f)) = 1
             /\ \A r \in RecordOf(source, results[1], f) :
                  r.complexity = 1 + Cardinality(DecisionPoints(source, f))
        /\ source = Source_test =>
             /\ results[1][1].complexity = 1
             /\ results[1][2].complexity = 9

C1_Witness ==
    /\ results # <<>>
    /\ source = Source_test
    /\ results[1][2].name = "complex_function"
    /\ results[1][2].complexity = 9

\* C2: every function record has complexity >= 1: in the Vec produced for a
\* file, in the running collection and in the returned AnalysisResult.
C2_ComplexityAtLeastOne ==
    /\ \A r \in Records(functions) : r.complexity >= 1
    /\ \A r \in Records(all_functions) : r.complexity >= 1
    /\ Returned => \A r \in Records(result[1].functions) : r.complexity >= 1

C2_Witness ==
    /\ pc = "exit_ok"
    /\ \E r \in Records(result[1].functions) : r.complexity = 1
    /\ \E r \in Records(functions) : r.complexity > 1

\* C3: counting is inclusive of nested definitions: when function g lies in
\* the body of function f, g has its own record, every decision point of g's
\* body is counted for f too, and so f's complexity is at least g's.
C3_NestedCountedInOuter ==
    results # <<>> =>
        \A f \in FunctionDefs(source), g \in FunctionDefs(source) :
            InBodyOf(source, g, f) =>
                \A rf \in RecordOf(source, results[1], f) :
                    /\ RecordOf(source, results[1], g) # {}
                    /\ \A rg \in RecordOf(source, results[1], g) :
                         /\ rf.complexity >= rg.complexity
                         /\ rf.complexity - 1 >=
                              (rg.complexity - 1)
                              + Cardinality(DecisionPoints(source, f)
                                            \ DecisionPoints(source, g))

C3_Witness ==
    /\ results # <<>>
    /\ \E f \in FunctionDefs(source), g \in FunctionDefs(source) :
         /\ InBodyOf(source, g, f)
         /\ \E rf \in RecordOf(source, results[1], f),
               rg \in RecordOf(source, results[1], g) :
                rg.complexity = 2 /\ rf.complexity = 2

\* C4: the running total and the running max agree with the records
\* collected so far after every file, and a returned summary agrees with
\* the returned list: total_functions is its length, max_complexity its
\* maximum, and the mean is the sum of its complexities over its length.
C4_SummaryAgreesWithFunctions ==
    /\ total_complexity = SumOf(all_functions)
    /\ max_complexity = MaxOf(all_functions)
    /\ (Returned /\ result[1].summary # <<>>) =>
         LET fs == result[1].functions
             sm == result[1].summary[1]
         IN /\ sm.total_functions = Len(fs)
            /\ sm.max_complexity = MaxOf(fs)
            /\ sm.mean_complexity.num = SumOf(fs)
            /\ sm.mean_complexity.den = Len(fs)

C4_Witness ==
    /\ Returned
    /\ result[1].summary # <<>>
    /\ Cardinality(parsedFiles) >= 2
    /\ result[1].summary[1].total_functions >= 2
    /\ result[1].summary[1].max_complexity = 6
    /\ result[1].functions[Len(result[1].functions)].complexity < 6

\* C5: functions_above_threshold is the number of returned records whose
\* complexity is strictly greater than the threshold; a record whose
\* complexity equals the threshold is not counted.
C5_AboveThresholdIsStrict ==
    (Returned /\ result[1].summary # <<>>) =>
        LET fs == result[1].functions
        IN result[1].summary[1].functions_above_threshold =
             Cardinality({ k \in 1..Len(fs) : fs[k].complexity > args.threshold })

C5_Witness ==
    /\ Returned
    /\ result[1].summary # <<>>
    /\ \E r \in Records(result[1].functions) : r.complexity = args.threshold
    /\ \E r \in Records(result[1].functions) : r.complexity > args.threshold
    /\ result[1].summary[1].functions_above_threshold = 1

\* C6: in every returned result the summary is absent exactly when the
\* functions list is empty.
C6_SummaryAbsentIffNoFunctions ==
    Returned => (result[1].summary = <<>> <=> result[1].functions = <<>>)

C6_Witness ==
    /\ Returned
    /\ parsedFiles # {}
    /\ result[1].functions = <<>>
    /\ result[1].summary = <<>>

\* C7: a file under a directory named __pycache__ or venv is never read or
\* parsed, no record carries its path, and the running total and max are
\* those of the records of the other files, even when the file is a .py file.
C7_ExcludedNeverAnalyzed ==
    \A k \in 1..Len(walk) :
        (IsFileEntry(k) /\ UnderExcludedSegment(entry_path(k))) =>
            /\ entry_path(k) \notin readFiles
            /\ entry_path(k) \notin parsedFiles
            /\ NoRecordOf(k, functions)
            /\ NoRecordOf(k, all_functions)
            /\ Returned => NoRecordOf(k, result[1].functions)
            /\ total_complexity = SumOf(all_functions)
            /\ max_complexity = MaxOf(all_functions)

C7_Witness ==
    /\ pc = "exit_ok"
    /\ result[1].functions # <<>>
    /\ \E k \in 1..Len(walk) :
         /\ UnderExcludedSegment(entry_path(k))
         /\ HasPyExtension(entry_path(k))
         /\ FunctionDefs(item_at(k).tree) # {}
         /\ k < Len(walk)

\* An error was met at the k-th walk item: the traversal reported one, or
\* the file was handed to read_to_string or to the parser and that failed.
TraversalErrorMet(k) == k <= pos /\ item_at(k).kind = "walk_error"

FileErrorMet(k) ==
    /\ k <= pos
    /\ Eligible(k)
    /\ ~item_at(k).read_ok \/ ~item_at(k).parse_ok

AbortedAt(k) ==
    /\ pos = k
    /\ Aborted
    /\ result = <<>>
    /\ stdout = <<>>

\* C8 as stated: any error met during the run, while traversing the tree,
\* reading an eligible file or parsing it, aborts the run at once: no later
\* item is processed, no AnalysisResult is returned, no report is printed.
C8_AnyErrorAborts ==
    \A k \in 1..Len(walk) :
        (TraversalErrorMet(k) \/ FileErrorMet(k)) => AbortedAt(k)

\* C8, amended: an error reading or parsing an eligible file aborts the run
\* at once (no later item is processed, no AnalysisResult is returned, no
\* report is printed), and the run is aborted by nothing else; an error of
\* the traversal is dropped and the walk goes on.
C8_FileErrorAborts ==
    /\ \A k \in 1..Len(walk) : FileErrorMet(k) => AbortedAt(k)
    /\ Aborted => (pos >= 1 /\ FileErrorMet(pos))

C8_Witness ==
    /\ pc = "exit_err"
    /\ result = <<>>
    /\ stdout = <<>>
    /\ pos >= 2
    /\ pos < Len(walk)
    /\ Eligible(pos + 1)
    /\ item_at(pos + 1).read_ok /\ item_at(pos + 1).parse_ok
    /\ \E k \in 1..(pos - 1) : TraversalErrorMet(k)

\* C9: in table mode the summary block is printed exactly when the summary
\* flag was given.
C9_SummaryBlockFollowsFlag ==
    (pc = "exit_ok" /\ args.output = "table") =>
        ((\E i \in 1..Len(stdout) : stdout[i] = "summary") <=> args.summary)

\* C10 as stated: on a successful run every .py file whose path has no
\* directory component named __pycache__ or venv is analyzed, all of its
\* functions being in the result with its path, and only the files under
\* such a component are left out.
C10_ExcludedBySegmentOnly ==
    Returned =>
        \A k \in 1..Len(walk) :
            (IsFileEntry(k) /\ HasPyExtension(entry_path(k))) =>
                IF UnderExcludedSegment(entry_path(k))
                THEN NoRecordOf(k, result[1].functions)
                ELSE AllFunctionsIn(k, result[1].functions)

\* C10, amended: on a successful run every entry the traversal yields whose
\* extension is py and whose whole path, the root included, contains neither
\* "__pycache__" nor "venv" as a substring is analyzed, all of its functions
\* being in the result with its path; every other entry is left out.
C10_ExcludedBySubstring ==
    Returned =>
        \A k \in 1..Len(walk) :
            IF Eligible(k)
            THEN /\ AllFunctionsIn(k, result[1].functions)
                 /\ entry_path(k) \in parsedFiles
            ELSE /\ NoRecordOf(k, result[1].functions)
                 /\ entry_path(k) \notin readFiles

C10_Witness ==
    /\ pc = "exit_ok"
    /\ \E k \in 1..Len(walk) :
         /\ Eligible(k)
         /\ FunctionDefs(item_at(k).tree) # {}
    /\ \E k \in 1..Len(walk) :
         /\ IsFileEntry(k)
         /\ HasPyExtension(entry_path(k))
         /\ ~UnderExcludedSegment(entry_path(k))
         /\ ~Eligible(k)
         /\ args.path = <<N_proj>>

====
